---- MODULE Spec2Model ----
(***************************************************************************)
(* Model of h11/headers.py: header normalisation and validation, the       *)
(* comma-list accessors, the framing decision and Expect: 100-continue.    *)
(*                                                                         *)
(* Byte strings are sequences of byte values (0..255); a header is a       *)
(* record [name, value] of two byte strings; a header list is a sequence   *)
(* of headers.  A value that may be text or bytes (an argument handed to   *)
(* bytesify) is a record [text, data].                                     *)
(***************************************************************************)
EXTENDS Integers, Sequences, FiniteSets, TLC

VARIABLES headers, trust, last

vars == <<headers, trust, last>>

\* Length of the header lists the checks start from, and that set_comma_header
\* may build.
MaxLen == 3

(***************************************************************************)
(* Byte-string literals of the source.                                     *)
(***************************************************************************)
\* b"content-length"
b_content_length == <<99, 111, 110, 116, 101, 110, 116, 45, 108, 101, 110, 103, 116, 104>>
\* b"transfer-encoding"
b_transfer_encoding == <<116, 114, 97, 110, 115, 102, 101, 114, 45, 101, 110, 99, 111, 100, 105, 110, 103>>
\* b"chunked"
b_chunked == <<99, 104, 117, 110, 107, 101, 100>>
\* b"100-continue"
b_100_continue == <<49, 48, 48, 45, 99, 111, 110, 116, 105, 110, 117, 101>>
\* b"1.1"
b_1_1 == <<49, 46, 49>>
\* b","
b_comma == 44
\* "Transfer-Encoding", "Content-Length", "Expect": the text literals that
\* framing_headers and has_expect_100_continue pass as header names
s_Transfer_Encoding == [text |-> TRUE, data |-> <<84, 114, 97, 110, 115, 102, 101, 114, 45, 69, 110, 99, 111, 100, 105, 110, 103>>]
s_Content_Length == [text |-> TRUE, data |-> <<67, 111, 110, 116, 101, 110, 116, 45, 76, 101, 110, 103, 116, 104>>]
s_Expect == [text |-> TRUE, data |-> <<69, 120, 112, 101, 99, 116>>]

(***************************************************************************)
(* The bytes methods the module uses.                                      *)
(***************************************************************************)
\* bytes.strip() with no argument removes ASCII whitespace: b" \t\n\r\x0b\x0c"
Whitespace == {9, 10, 11, 12, 13, 32}

\* bytes.lower() maps the ASCII letters A-Z to a-z and nothing else
lower(s) == [i \in 1..Len(s) |-> IF s[i] \in 65..90 THEN s[i] + 32 ELSE s[i]]

RECURSIVE lstrip(_)
lstrip(s) == IF s /= <<>> /\ Head(s) \in Whitespace THEN lstrip(Tail(s)) ELSE s

RECURSIVE rstrip(_)
rstrip(s) ==
    IF s /= <<>> /\ s[Len(s)] \in Whitespace THEN rstrip(SubSeq(s, 1, Len(s) - 1)) ELSE s

strip(s) == rstrip(lstrip(s))

\* bytes.split(sep) for a one-byte separator: scans left to right, `cur` is the
\* piece being collected; the result always has at least one piece.
RECURSIVE split_from(_, _, _, _)
split_from(s, sep, i, cur) ==
    IF i > Len(s) THEN <<cur>>
    ELSE IF s[i] = sep THEN <<cur>> \o split_from(s, sep, i + 1, <<>>)
    ELSE split_from(s, sep, i + 1, Append(cur, s[i]))

split(s, sep) == split_from(s, sep, 1, <<>>)

\* a < b on bytes: lexicographic by byte value, a proper prefix is smaller
RECURSIVE bytes_less(_, _)
bytes_less(a, b) ==
    IF b = <<>> THEN FALSE
    ELSE IF a = <<>> THEN TRUE
    ELSE IF Head(a) /= Head(b) THEN Head(a) < Head(b)
    ELSE bytes_less(Tail(a), Tail(b))

\* int(token) on a whitespace-free bytes token: an optional sign and decimal
\* digits give the value, anything else raises ValueError.  (int() also takes
\* single underscores between digits; no token here has one.)
Digits == 48..57

RECURSIVE decimal(_, _)
decimal(s, acc) == IF s = <<>> THEN acc ELSE decimal(Tail(s), 10 * acc + (Head(s) - 48))

int(s) ==
    LET signed == s /= <<>> /\ Head(s) \in {43, 45}
        body == IF signed THEN Tail(s) ELSE s
    IN  IF body /= <<>> /\ \A i \in 1..Len(body) : body[i] \in Digits
        THEN [ok |-> TRUE,
              value |-> IF signed /\ Head(s) = 45 THEN 0 - decimal(body, 0) ELSE decimal(body, 0)]
        ELSE [ok |-> FALSE, value |-> 0]

(***************************************************************************)
(* util.py (not part of the file): bytesify and validate.                  *)
(***************************************************************************)
\* bytesify: text is encoded as ASCII, bytes are kept; the result is bytes
bytesify(x) == x.data

\* validate(_content_length_re, value, ...) with the pattern ^[0-9]+$ : the
\* value is one or more ASCII digits, otherwise ProtocolError
content_length_re_matches(value) ==
    value /= <<>> /\ \A i \in 1..Len(value) : value[i] \in Digits

(***************************************************************************)
(* normalize_and_validate                                                  *)
(***************************************************************************)
\* The ProtocolError raised, named after the raise statement:
\*   "Illegal header name"                            MalformedHeaderName
\*   "multiple Content-Length headers"                DuplicateContentLength
\*   "bad Content-Length"                             MalformedContentLength
\*   "multiple Transfer-Encoding headers"             DuplicateTransferEncoding
\*   "Only Transfer-Encoding: chunked is supported"   UnsupportedTransferEncoding
ProtocolErrors ==
    {"MalformedHeaderName", "DuplicateContentLength", "MalformedContentLength",
     "DuplicateTransferEncoding", "UnsupportedTransferEncoding"}

\* Variants of normalize_step with one slip each, for testing the properties:
\* the duplicate Content-Length check left out,
normalize_step_no_duplicate_check(st, raw) ==
    LET name == bytesify(raw.name)
        value == bytesify(raw.value)
        name_lower == lower(name)
        isCL == name_lower = b_content_length
        isTE == name_lower = b_transfer_encoding
    IN  IF strip(name) /= name
            THEN [st EXCEPT !.err = "MalformedHeaderName"]
        ELSE IF isCL /\ ~content_length_re_matches(value)
            THEN [st EXCEPT !.err = "MalformedContentLength"]
        ELSE IF isTE /\ st.saw_transfer_encoding
            THEN [st EXCEPT !.err = "DuplicateTransferEncoding"]
        ELSE IF isTE /\ lower(value) /= b_chunked
            THEN [st EXCEPT !.err = "UnsupportedTransferEncoding"]
        ELSE [err |-> "none",
              new_headers |-> Append(st.new_headers, [name |-> name, value |-> value]),
              saw_content_length |-> st.saw_content_length \/ isCL,
              saw_transfer_encoding |-> st.saw_transfer_encoding \/ isTE]

\* the value format checked before the duplicate,
normalize_step_format_first(st, raw) ==
    LET name == bytesify(raw.name)
        value == bytesify(raw.value)
        name_lower == lower(name)
        isCL == name_lower = b_content_length
        isTE == name_lower = b_transfer_encoding
    IN  IF strip(name) /= name
            THEN [st EXCEPT !.err = "MalformedHeaderName"]
        ELSE IF isCL /\ ~content_length_re_matches(value)
            THEN [st EXCEPT !.err = "MalformedContentLength"]
        ELSE IF isCL /\ st.saw_content_length
            THEN [st EXCEPT !.err = "DuplicateContentLength"]
        ELSE IF isTE /\ lower(value) /= b_chunked
            THEN [st EXCEPT !.err = "UnsupportedTransferEncoding"]
        ELSE IF isTE /\ st.saw_transfer_encoding
            THEN [st EXCEPT !.err = "DuplicateTransferEncoding"]
        ELSE [err |-> "none",
              new_headers |-> Append(st.new_headers, [name |-> name, value |-> value]),
              saw_content_length |-> st.saw_content_length \/ isCL,
              saw_transfer_encoding |-> st.saw_transfer_encoding \/ isTE]

\* name_lower appended in place of name.
normalize_step_lowercased_name(st, raw) ==
    LET name == bytesify(raw.name)
        value == bytesify(raw.value)
        name_lower == lower(name)
        isCL == name_lower = b_content_length
        isTE == name_lower = b_transfer_encoding
    IN  IF strip(name) /= name
            THEN [st EXCEPT !.err = "MalformedHeaderName"]
        ELSE IF isCL /\ st.saw_content_length
            THEN [st EXCEPT !.err = "DuplicateContentLength"]
        ELSE IF isCL /\ ~content_length_re_matches(value)
            THEN [st EXCEPT !.err = "MalformedContentLength"]
        ELSE IF isTE /\ st.saw_transfer_encoding
            THEN [st EXCEPT !.err = "DuplicateTransferEncoding"]
        ELSE IF isTE /\ lower(value) /= b_chunked
            THEN [st EXCEPT !.err = "UnsupportedTransferEncoding"]
        ELSE [err |-> "none",
              new_headers |-> Append(st.new_headers, [name |-> name_lower, value |-> value]),
              saw_content_length |-> st.saw_content_length \/ isCL,
              saw_transfer_encoding |-> st.saw_transfer_encoding \/ isTE]

\* One iteration of the for loop over (name, value); st holds the locals
\* new_headers, saw_content_length, saw_transfer_encoding and the error raised.
normalize_step(st, raw) ==
    LET name == bytesify(raw.name)
        value == bytesify(raw.value)
        name_lower == lower(name)
        isCL == name_lower = b_content_length
        isTE == name_lower = b_transfer_encoding
    IN  IF strip(name) /= name
            THEN [st EXCEPT !.err = "MalformedHeaderName"]
        ELSE IF isCL /\ st.saw_content_length
            THEN [st EXCEPT !.err = "DuplicateContentLength"]
        ELSE IF isCL /\ ~content_length_re_matches(value)
            THEN [st EXCEPT !.err = "MalformedContentLength"]
        ELSE IF isTE /\ st.saw_transfer_encoding
            THEN [st EXCEPT !.err = "DuplicateTransferEncoding"]
        ELSE IF isTE /\ lower(value) /= b_chunked
            THEN [st EXCEPT !.err = "UnsupportedTransferEncoding"]
        ELSE [err |-> "none",
              new_headers |-> Append(st.new_headers, [name |-> name, value |-> value]),
              saw_content_length |-> st.saw_content_length \/ isCL,
              saw_transfer_encoding |-> st.saw_transfer_encoding \/ isTE]

RECURSIVE normalize_loop(_, _, _)
normalize_loop(raws, i, st) ==
    IF i > Len(raws) \/ st.err /= "none" THEN st
    ELSE normalize_loop(raws, i + 1, normalize_step(st, raws[i]))

\* Returns [err, headers]: err = "none" and the new list, or the ProtocolError
\* raised and no list.
normalize_and_validate(raws) ==
    LET st == normalize_loop(raws, 1,
                  [err |-> "none", new_headers |-> <<>>,
                   saw_content_length |-> FALSE, saw_transfer_encoding |-> FALSE])
    IN  IF st.err = "none" THEN [err |-> "none", headers |-> st.new_headers]
        ELSE [err |-> st.err, headers |-> <<>>]

(***************************************************************************)
(* get_comma_header                                                        *)
(***************************************************************************)
\* Variant of append_pieces that appends the empty pieces too.
RECURSIVE append_pieces_keep_empty(_, _)
append_pieces_keep_empty(out, pieces) ==
    IF pieces = <<>> THEN out
    ELSE append_pieces_keep_empty(Append(out, strip(Head(pieces))), Tail(pieces))

\* The inner loop over found_raw_value.split(b","): each piece is stripped
\* and appended when it is not empty.
RECURSIVE append_pieces(_, _)
append_pieces(out, pieces) ==
    IF pieces = <<>> THEN out
    ELSE LET found_split_value == strip(Head(pieces))
         IN  append_pieces(IF found_split_value /= <<>> THEN Append(out, found_split_value)
                           ELSE out,
                           Tail(pieces))

\* The outer loop over the headers; name is already lower-cased.
RECURSIVE get_comma_loop(_, _, _, _, _)
get_comma_loop(hs, i, name, lowercase, out) ==
    IF i > Len(hs) THEN out
    ELSE LET found_name == lower(hs[i].name)
             found_raw_value == IF lowercase THEN lower(hs[i].value) ELSE hs[i].value
         IN  get_comma_loop(hs, i + 1, name, lowercase,
                 IF found_name = name
                 THEN append_pieces(out, split(found_raw_value, b_comma))
                 ELSE out)

get_comma_header(hs, name, lowercase) ==
    get_comma_loop(hs, 1, lower(bytesify(name)), lowercase, <<>>)

(***************************************************************************)
(* set_comma_header                                                        *)
(***************************************************************************)
\* Variant of set_comma_keep that compares found_name without lower-casing it.
RECURSIVE set_comma_keep_case_sensitive(_, _, _, _)
set_comma_keep_case_sensitive(hs, i, name_lower, new_headers) ==
    IF i > Len(hs) THEN new_headers
    ELSE set_comma_keep_case_sensitive(hs, i + 1, name_lower,
             IF hs[i].name /= name_lower THEN Append(new_headers, hs[i])
             ELSE new_headers)

\* The first loop: the headers whose name does not match are kept.
RECURSIVE set_comma_keep(_, _, _, _)
set_comma_keep(hs, i, name_lower, new_headers) ==
    IF i > Len(hs) THEN new_headers
    ELSE set_comma_keep(hs, i + 1, name_lower,
             IF lower(hs[i].name) /= name_lower THEN Append(new_headers, hs[i])
             ELSE new_headers)

\* The second loop: one header per new value, under the name as given.
RECURSIVE set_comma_add(_, _, _)
set_comma_add(new_headers, name, new_values) ==
    IF new_values = <<>> THEN new_headers
    ELSE set_comma_add(Append(new_headers, [name |-> name, value |-> Head(new_values)]),
                       name, Tail(new_values))

\* The list that headers[:] = new_headers leaves in the caller's list.
set_comma_header(hs, name, new_values) ==
    LET nm == bytesify(name)
    IN  set_comma_add(set_comma_keep(hs, 1, lower(nm), <<>>), nm, new_values)

(***************************************************************************)
(* framing_headers                                                         *)
(***************************************************************************)
Decision(err, te, has_cl, cl) ==
    [err |-> err, transfer_encoding |-> te, has_content_length |-> has_cl,
     content_length |-> cl]

\* Variants of framing_headers: Content-Length looked at first,
framing_headers_length_first(hs) ==
    LET transfer_encodings == get_comma_header(hs, s_Transfer_Encoding, TRUE)
        content_lengths == get_comma_header(hs, s_Content_Length, TRUE)
    IN  IF content_lengths /= <<>>
        THEN IF int(content_lengths[1]).ok
             THEN Decision("none", "absent", TRUE, int(content_lengths[1]).value)
             ELSE Decision("ValueError", "absent", FALSE, 0)
        ELSE IF transfer_encodings /= <<>>
        THEN IF transfer_encodings = <<b_chunked>>
             THEN Decision("none", "chunked", FALSE, 0)
             ELSE Decision("AssertionError", "absent", FALSE, 0)
        ELSE Decision("none", "absent", FALSE, 0)

\* the Transfer-Encoding tokens fetched with lowercase=False,
framing_headers_case_sensitive(hs) ==
    LET transfer_encodings == get_comma_header(hs, s_Transfer_Encoding, FALSE)
        content_lengths == get_comma_header(hs, s_Content_Length, TRUE)
    IN  IF transfer_encodings /= <<>>
        THEN IF transfer_encodings = <<b_chunked>>
             THEN Decision("none", "chunked", FALSE, 0)
             ELSE Decision("AssertionError", "absent", FALSE, 0)
        ELSE IF content_lengths /= <<>>
        THEN IF int(content_lengths[1]).ok
             THEN Decision("none", "absent", TRUE, int(content_lengths[1]).value)
             ELSE Decision("ValueError", "absent", FALSE, 0)
        ELSE Decision("none", "absent", FALSE, 0)

\* the assert statement left out.
framing_headers_unasserted(hs) ==
    LET transfer_encodings == get_comma_header(hs, s_Transfer_Encoding, TRUE)
        content_lengths == get_comma_header(hs, s_Content_Length, TRUE)
    IN  IF transfer_encodings /= <<>>
        THEN Decision("none", "chunked", FALSE, 0)
        ELSE IF content_lengths /= <<>>
        THEN IF int(content_lengths[1]).ok
             THEN Decision("none", "absent", TRUE, int(content_lengths[1]).value)
             ELSE Decision("ValueError", "absent", FALSE, 0)
        ELSE Decision("none", "absent", FALSE, 0)

\* Returns the pair (effective_transfer_encoding, effective_content_length),
\* None being "absent" / has_content_length = FALSE, or the exception raised:
\* AssertionError from the assert (assertions enabled, the interpreter's
\* default), ValueError from int().
framing_headers(hs) ==
    LET transfer_encodings == get_comma_header(hs, s_Transfer_Encoding, TRUE)
        content_lengths == get_comma_header(hs, s_Content_Length, TRUE)
    IN  IF transfer_encodings /= <<>>
        THEN IF transfer_encodings = <<b_chunked>>
             THEN Decision("none", "chunked", FALSE, 0)
             ELSE Decision("AssertionError", "absent", FALSE, 0)
        ELSE IF content_lengths /= <<>>
        THEN IF int(content_lengths[1]).ok
             THEN Decision("none", "absent", TRUE, int(content_lengths[1]).value)
             ELSE Decision("ValueError", "absent", FALSE, 0)
        ELSE Decision("none", "absent", FALSE, 0)

(***************************************************************************)
(* has_expect_100_continue                                                 *)
(***************************************************************************)
\* Variant of has_expect_100_continue that fetches the tokens lower-cased.
has_expect_100_continue_lowercased(request) ==
    IF bytes_less(request.http_version, b_1_1) THEN FALSE
    ELSE LET expect == get_comma_header(request.headers, s_Expect, TRUE)
         IN  \E i \in 1..Len(expect) : expect[i] = b_100_continue

has_expect_100_continue(request) ==
    IF bytes_less(request.http_version, b_1_1) THEN FALSE
    ELSE LET expect == get_comma_header(request.headers, s_Expect, FALSE)
         IN  \E i \in 1..Len(expect) : expect[i] = b_100_continue

(***************************************************************************)
(* The inputs the calls are made with.                                     *)
(***************************************************************************)
H(name, value) == [name |-> name, value |-> value]

HeaderPool ==
    { \* Content-Length: 5
      H(<<67, 111, 110, 116, 101, 110, 116, 45, 76, 101, 110, 103, 116, 104>>, <<53>>),
      \* content-length: 10
      H(<<99, 111, 110, 116, 101, 110, 116, 45, 108, 101, 110, 103, 116, 104>>, <<49, 48>>),
      \* Content-Length: chunked
      H(<<67, 111, 110, 116, 101, 110, 116, 45, 76, 101, 110, 103, 116, 104>>,
        <<99, 104, 117, 110, 107, 101, 100>>),
      \* Transfer-Encoding: chunked
      H(<<84, 114, 97, 110, 115, 102, 101, 114, 45, 69, 110, 99, 111, 100, 105, 110, 103>>,
        <<99, 104, 117, 110, 107, 101, 100>>),
      \* transfer-encoding: Chunked
      H(<<116, 114, 97, 110, 115, 102, 101, 114, 45, 101, 110, 99, 111, 100, 105, 110, 103>>,
        <<67, 104, 117, 110, 107, 101, 100>>),
      \* Transfer-Encoding: 5
      H(<<84, 114, 97, 110, 115, 102, 101, 114, 45, 69, 110, 99, 111, 100, 105, 110, 103>>, <<53>>),
      \* Expect: 100-continue
      H(<<69, 120, 112, 101, 99, 116>>, <<49, 48, 48, 45, 99, 111, 110, 116, 105, 110, 117, 101>>),
      \* expect: " 100-Continue ,, b "
      H(<<101, 120, 112, 101, 99, 116>>,
        <<32, 49, 48, 48, 45, 67, 111, 110, 116, 105, 110, 117, 101, 32, 44, 44, 32, 98, 32>>),
      \* "Expect ": 100-continue   (whitespace after the name)
      H(<<69, 120, 112, 101, 99, 116, 32>>, <<49, 48, 48, 45, 99, 111, 110, 116, 105, 110, 117, 101>>) }

HeaderLists == UNION {[1..n -> HeaderPool] : n \in 0..MaxLen}

\* The names get_comma_header is asked for, and those set_comma_header sets
GetNames == {s_Transfer_Encoding, s_Content_Length, s_Expect}
SetNames == {s_Transfer_Encoding, s_Content_Length}

\* new_values of set_comma_header: [], [chunked], [5], [chunked, chunked], [5, chunked]
NewValuesPool ==
    { <<>>, <<b_chunked>>, << <<53>> >>, <<b_chunked, b_chunked>>, << <<53>>, b_chunked >> }

\* request.http_version: b"1.0", b"1.1", b"2.0"
Versions == { <<49, 46, 48>>, <<49, 46, 49>>, <<50, 46, 48>> }

\* The caller hands the list over as text or as bytes
AsArgument(hs, text) ==
    [i \in 1..Len(hs) |-> [name |-> [text |-> text, data |-> hs[i].name],
                           value |-> [text |-> text, data |-> hs[i].value]]]

(***************************************************************************)
(* The state: the caller's header list, whether it is the unmodified       *)
(* result of normalize_and_validate ("validated"), such a result changed   *)
(* by set_comma_header since ("edited"), or neither ("raw"), and the last  *)
(* call with its arguments and outcome.                                    *)
(***************************************************************************)
NoCall ==
    [op |-> "none", input |-> <<>>, trusted |-> "raw", text |-> FALSE, name |-> <<>>,
     lowercase |-> FALSE, new_values |-> <<>>, http_version |-> <<>>, err |-> "none",
     out |-> <<>>, tokens |-> <<>>, decision |-> Decision("none", "absent", FALSE, 0),
     result |-> FALSE]

Call(op) == [NoCall EXCEPT !.op = op, !.input = headers, !.trusted = trust]

Init ==
    /\ headers \in HeaderLists
    /\ trust = "raw"
    /\ last = NoCall

\* headers = normalize_and_validate(headers); on ProtocolError the caller keeps
\* the list it had
Normalize ==
    \E text \in BOOLEAN :
        LET r == normalize_and_validate(AsArgument(headers, text))
        IN  /\ last' = [Call("normalize") EXCEPT !.text = text, !.err = r.err, !.out = r.headers]
            /\ headers' = IF r.err = "none" THEN r.headers ELSE headers
            /\ trust' = IF r.err = "none" THEN "validated" ELSE trust

GetCommaHeader ==
    \E name \in GetNames, lowercase \in BOOLEAN :
        /\ last' = [Call("get") EXCEPT !.name = bytesify(name), !.lowercase = lowercase,
                                       !.tokens = get_comma_header(headers, name, lowercase)]
        /\ UNCHANGED <<headers, trust>>

SetCommaHeader ==
    \E name \in SetNames, new_values \in NewValuesPool :
        LET new_headers == set_comma_header(headers, name, new_values)
        IN  /\ Len(new_headers) <= MaxLen
            /\ last' = [Call("set") EXCEPT !.name = bytesify(name), !.new_values = new_values,
                                           !.out = new_headers]
            /\ headers' = new_headers
            /\ trust' = IF trust = "raw" THEN "raw" ELSE "edited"

FramingHeaders ==
    LET d == framing_headers(headers)
    IN  /\ last' = [Call("framing") EXCEPT !.err = d.err, !.decision = d]
        /\ UNCHANGED <<headers, trust>>

HasExpect100Continue ==
    \E http_version \in Versions :
        /\ last' = [Call("expect") EXCEPT
                        !.http_version = http_version,
                        !.result = has_expect_100_continue(
                                       [http_version |-> http_version, headers |-> headers])]
        /\ UNCHANGED <<headers, trust>>

Next ==
    \/ Normalize
    \/ GetCommaHeader
    \/ SetCommaHeader
    \/ FramingHeaders
    \/ HasExpect100Continue

Spec == Init /\ [][Next]_vars

(***************************************************************************)
(* Vocabulary of the properties, stated over byte positions rather than    *)
(* by the loops above.                                                     *)
(***************************************************************************)
Min(S) == CHOOSE x \in S : \A y \in S : x <= y
Max(S) == CHOOSE x \in S : \A y \in S : y <= x

Folded(s) == [i \in DOMAIN s |-> IF s[i] >= 65 /\ s[i] <= 90 THEN s[i] + 32 ELSE s[i]]

EqIgnoreCase(a, b) == Folded(a) = Folded(b)

NoOuterSpace(s) == s = <<>> \/ (s[1] \notin Whitespace /\ s[Len(s)] \notin Whitespace)

\* s from its first to its last non-whitespace byte
Trimmed(s) ==
    LET ink == {i \in DOMAIN s : s[i] \notin Whitespace}
    IN  IF ink = {} THEN <<>> ELSE SubSeq(s, Min(ink), Max(ink))

AllDigits(s) == Len(s) >= 1 /\ \A i \in DOMAIN s : s[i] >= 48 /\ s[i] <= 57

\* the value of a digit string, least significant digit last
RECURSIVE DecimalValue(_)
DecimalValue(s) ==
    IF s = <<>> THEN 0 ELSE 10 * DecimalValue(SubSeq(s, 1, Len(s) - 1)) + (s[Len(s)] - 48)

\* an integer literal that int() accepts here: optional sign, then digits
IsIntLiteral(s) ==
    \/ AllDigits(s)
    \/ Len(s) >= 2 /\ s[1] \in {43, 45} /\ AllDigits(Tail(s))

IntLiteralValue(s) ==
    IF s[1] = 45 THEN 0 - DecimalValue(Tail(s))
    ELSE IF s[1] = 43 THEN DecimalValue(Tail(s))
    ELSE DecimalValue(s)

\* the pieces of a value between its commas, by comma position
CommaCuts(s) == {0} \cup {i \in DOMAIN s : s[i] = 44} \cup {Len(s) + 1}

NthCut(s, k) == CHOOSE c \in CommaCuts(s) : Cardinality({d \in CommaCuts(s) : d < c}) = k - 1

PiecesOf(s) ==
    [k \in 1..(Cardinality(CommaCuts(s)) - 1) |-> SubSeq(s, NthCut(s, k) + 1, NthCut(s, k + 1) - 1)]

\* split on commas, trim each piece, drop the empty ones, then fold case if asked
TokensOf(value, caseFold) ==
    LET NonEmpty(x) == x /= <<>>
        pieces == PiecesOf(value)
        kept == SelectSeq([k \in DOMAIN pieces |-> Trimmed(pieces[k])], NonEmpty)
    IN  [k \in DOMAIN kept |-> IF caseFold THEN Folded(kept[k]) ELSE kept[k]]

CommaList(hs, name, caseFold) ==
    LET F[k \in 0..Len(hs)] ==
            IF k = 0 THEN <<>>
            ELSE F[k - 1] \o (IF EqIgnoreCase(hs[k].name, name)
                              THEN TokensOf(hs[k].value, caseFold) ELSE <<>>)
    IN  F[Len(hs)]

Named(hs, name) == {i \in DOMAIN hs : EqIgnoreCase(hs[i].name, name)}

\* the invariants the Normalizer establishes
NormalizerInvariants(hs) ==
    /\ \A i \in DOMAIN hs : NoOuterSpace(hs[i].name)
    /\ Cardinality(Named(hs, b_content_length)) <= 1
    /\ \A i \in Named(hs, b_content_length) : AllDigits(hs[i].value)
    /\ Cardinality(Named(hs, b_transfer_encoding)) <= 1
    /\ \A i \in Named(hs, b_transfer_encoding) : Folded(hs[i].value) = b_chunked

Normalized == last.op = "normalize" /\ last.err = "none"

(***************************************************************************)
(* C1: every list normalize_and_validate returns satisfies the Normalizer  *)
(* invariants: no name has leading or trailing whitespace, at most one     *)
(* Content-Length header and its value is digits only, at most one         *)
(* Transfer-Encoding header and its value is chunked ignoring case.  The   *)
(* caller's list has them for as long as it is the returned list.          *)
(***************************************************************************)
C1_NormalizedSatisfiesInvariants ==
    /\ Normalized => NormalizerInvariants(last.out)
    /\ trust = "validated" => NormalizerInvariants(headers)

C1_Witness ==
    /\ Normalized
    /\ Len(last.out) = 3
    /\ Named(last.out, b_content_length) /= {}
    /\ Named(last.out, b_transfer_encoding) /= {}

(***************************************************************************)
(* C3: normalize_and_validate fails with the error of the first violating  *)
(* entry in input order and returns no list; within an entry the order is  *)
(* name whitespace, duplicate, value format.  A second Content-Length is   *)
(* DuplicateContentLength whatever its value, a second Transfer-Encoding   *)
(* DuplicateTransferEncoding whatever its value.                           *)
(***************************************************************************)
Violation(hs, i) ==
    LET isCL == EqIgnoreCase(hs[i].name, b_content_length)
        isTE == EqIgnoreCase(hs[i].name, b_transfer_encoding)
    IN  IF ~NoOuterSpace(hs[i].name) THEN "MalformedHeaderName"
        ELSE IF isCL /\ \E j \in 1..(i - 1) : j \in Named(hs, b_content_length)
            THEN "DuplicateContentLength"
        ELSE IF isCL /\ ~AllDigits(hs[i].value) THEN "MalformedContentLength"
        ELSE IF isTE /\ \E j \in 1..(i - 1) : j \in Named(hs, b_transfer_encoding)
            THEN "DuplicateTransferEncoding"
        ELSE IF isTE /\ Folded(hs[i].value) /= b_chunked THEN "UnsupportedTransferEncoding"
        ELSE "none"

Violating(hs) == {i \in DOMAIN hs : Violation(hs, i) /= "none"}

\* entry i is the first violating one and it repeats an accepted header `name`
SecondOf(hs, i, name) ==
    /\ Violating(hs) /= {} /\ i = Min(Violating(hs))
    /\ i \in Named(hs, name)
    /\ \E j \in 1..(i - 1) : j \in Named(hs, name)

C3_FirstViolationDecides ==
    last.op = "normalize" =>
        /\ Violating(last.input) = {} => last.err = "none"
        /\ Violating(last.input) /= {} =>
               /\ last.err = Violation(last.input, Min(Violating(last.input)))
               /\ last.out = <<>>
               /\ headers = last.input
        /\ \A i \in DOMAIN last.input :
               /\ SecondOf(last.input, i, b_content_length)
                      => last.err = "DuplicateContentLength"
               /\ SecondOf(last.input, i, b_transfer_encoding)
                      => last.err = "DuplicateTransferEncoding"

\* a second Content-Length whose value is not digits, after an accepted one
C3_Witness ==
    /\ last.op = "normalize"
    /\ last.err = "DuplicateContentLength"
    /\ Len(last.input) >= 2
    /\ AllDigits(last.input[1].value)
    /\ SecondOf(last.input, 2, b_content_length)
    /\ ~AllDigits(last.input[2].value)

(***************************************************************************)
(* C4: for every list normalize_and_validate accepts, each output value is *)
(* the input value with leading and trailing whitespace removed, and the   *)
(* name is kept byte for byte.                                             *)
(***************************************************************************)
C4_ValuesAreStripped ==
    Normalized =>
        /\ Len(last.out) = Len(last.input)
        /\ \A i \in DOMAIN last.out :
               /\ last.out[i].name = last.input[i].name
               /\ last.out[i].value = Trimmed(last.input[i].value)
               /\ NoOuterSpace(last.out[i].value)

Others(hs, name) ==
    LET Other(h) == ~EqIgnoreCase(h.name, name)
    IN  SelectSeq(hs, Other)

C6_SetReplacesInPlace ==
    last.op = "set" =>
        LET kept == Others(last.input, last.name)
        IN  /\ headers = last.out
            /\ Len(headers) = Len(kept) + Len(last.new_values)
            /\ SubSeq(headers, 1, Len(kept)) = kept
            /\ \A k \in DOMAIN last.new_values :
                   headers[Len(kept) + k] = H(last.name, last.new_values[k])
            /\ last.new_values = <<>> => Named(headers, last.name) = {}

\* two different headers are kept in order, one is removed, one is appended
C6_Witness ==
    /\ last.op = "set"
    /\ Len(last.input) = 3
    /\ EqIgnoreCase(last.input[2].name, last.name)
    /\ last.input[2].name /= last.name
    /\ Len(last.new_values) = 1
    /\ headers = <<last.input[1], last.input[3], H(last.name, last.new_values[1])>>
    /\ last.input[1] /= last.input[3]

(***************************************************************************)
(* C7: get_comma_header returns, for all headers whose name matches        *)
(* ignoring case, the comma-separated pieces of their values in header     *)
(* order then intra-value order; every token is non-empty, has no comma    *)
(* and no leading or trailing whitespace; tokens are lower-cased iff       *)
(* lowercase is true; other headers contribute nothing and the list is     *)
(* left unchanged.                                                         *)
(***************************************************************************)
C7_GetCommaTokens ==
    last.op = "get" =>
        /\ last.tokens = CommaList(last.input, last.name, last.lowercase)
        /\ \A k \in DOMAIN last.tokens :
               /\ last.tokens[k] /= <<>>
               /\ \A i \in DOMAIN last.tokens[k] : last.tokens[k][i] /= 44
               /\ NoOuterSpace(last.tokens[k])
               /\ last.lowercase => last.tokens[k] = Folded(last.tokens[k])
        /\ Named(last.input, last.name) = {} => last.tokens = <<>>
        /\ headers = last.input

\* two matching headers of different name case and one other header; the first
\* value has an upper-case token, an empty piece and padded pieces
C7_Witness ==
    /\ last.op = "get"
    /\ ~last.lowercase
    /\ Len(last.input) = 3
    /\ Cardinality(Named(last.input, last.name)) = 2
    /\ Len(last.tokens) = 3
    /\ last.tokens[1] /= Folded(last.tokens[1])
    /\ last.tokens[2] = <<98>>
    /\ last.tokens[3] = b_100_continue

(***************************************************************************)
(* C8: has_expect_100_continue is false for every http_version lexically   *)
(* less than 1.1 whatever the headers; otherwise it is true iff some       *)
(* Expect header (name ignoring case) has the exact, case-sensitive token  *)
(* 100-continue among its comma-separated trimmed tokens.                  *)
(***************************************************************************)
LexLess(a, b) ==
    \E k \in 1..Len(b) :
        /\ \A i \in 1..(k - 1) : i <= Len(a) /\ a[i] = b[i]
        /\ (k > Len(a) \/ a[k] < b[k])

HasContinueToken(hs) ==
    \E i \in Named(hs, s_Expect.data) :
        \E k \in DOMAIN PiecesOf(hs[i].value) : Trimmed(PiecesOf(hs[i].value)[k]) = b_100_continue

C8_ExpectContinue ==
    last.op = "expect" =>
        /\ LexLess(last.http_version, b_1_1) => last.result = FALSE
        /\ ~LexLess(last.http_version, b_1_1) => last.result = HasContinueToken(last.input)
        /\ headers = last.input

\* HTTP/1.1 or later, the only Expect token of that name is 100-Continue: false
C8_Witness ==
    /\ last.op = "expect"
    /\ ~LexLess(last.http_version, b_1_1)
    /\ Named(last.input, s_Expect.data) /= {}
    /\ \E k \in DOMAIN CommaList(last.input, s_Expect.data, FALSE) :
           /\ CommaList(last.input, s_Expect.data, FALSE)[k] /= b_100_continue
           /\ CommaList(last.input, s_Expect.data, TRUE)[k] = b_100_continue
    /\ last.result = FALSE

(***************************************************************************)
(* C2 as stated: framing_headers never returns both fields, and for every  *)
(* list: Transfer-Encoding tokens exactly [chunked] give (chunked, absent) *)
(* whether or not and wherever a Content-Length is present; otherwise a    *)
(* Content-Length header gives (absent, integer of its first token);       *)
(* otherwise (absent, absent).                                             *)
(***************************************************************************)
Returned(te, has_cl, cl) == last.decision = Decision("none", te, has_cl, cl)

TETokens(hs) == CommaList(hs, b_transfer_encoding, TRUE)
CLTokens(hs) == CommaList(hs, b_content_length, TRUE)

C2_AsStated ==
    last.op = "framing" =>
        IF TETokens(last.input) = <<b_chunked>> THEN Returned("chunked", FALSE, 0)
        ELSE IF Named(last.input, b_content_length) /= {}
        THEN /\ CLTokens(last.input) /= <<>>
             /\ IsIntLiteral(CLTokens(last.input)[1])
             /\ Returned("absent", TRUE, IntLiteralValue(CLTokens(last.input)[1]))
        ELSE Returned("absent", FALSE, 0)

(***************************************************************************)
(* C2 amended: framing_headers never returns both fields.  Transfer-       *)
(* Encoding tokens exactly [chunked] give (chunked, absent) whether or not *)
(* and wherever a Content-Length is present; any other non-empty Transfer- *)
(* Encoding tokens fail the assertion and no decision is returned.  With   *)
(* no Transfer-Encoding token: a first Content-Length token that int()     *)
(* accepts gives (absent, its value), one that int() rejects raises        *)
(* ValueError, and no Content-Length token gives (absent, absent).         *)
(***************************************************************************)
FramingOutcome(hs) ==
    IF TETokens(hs) = <<b_chunked>> THEN Decision("none", "chunked", FALSE, 0)
    ELSE IF TETokens(hs) /= <<>> THEN Decision("AssertionError", "absent", FALSE, 0)
    ELSE IF CLTokens(hs) = <<>> THEN Decision("none", "absent", FALSE, 0)
    ELSE IF IsIntLiteral(CLTokens(hs)[1])
        THEN Decision("none", "absent", TRUE, IntLiteralValue(CLTokens(hs)[1]))
    ELSE Decision("ValueError", "absent", FALSE, 0)

C2_FramingPrecedence ==
    last.op = "framing" =>
        /\ last.decision = FramingOutcome(last.input)
        /\ last.err = last.decision.err
        /\ ~(last.decision.transfer_encoding = "chunked" /\ last.decision.has_content_length)
        /\ headers = last.input

\* a list never normalised: Content-Length first, Transfer-Encoding after it
C2_Witness ==
    /\ last.op = "framing"
    /\ last.trusted = "raw"
    /\ Len(last.input) >= 2
    /\ 1 \in Named(last.input, b_content_length)
    /\ AllDigits(last.input[1].value)
    /\ 2 \in Named(last.input, b_transfer_encoding)
    /\ Returned("chunked", FALSE, 0)

(***************************************************************************)
(* C9: on every list normalize_and_validate returned, framing_headers      *)
(* completes: the assertion holds and the Content-Length token parses as a *)
(* non-negative integer; the decision is (chunked, absent) iff the list    *)
(* has a Transfer-Encoding header, and (absent, n) iff it has none and has *)
(* a Content-Length header of value n.                                     *)
(***************************************************************************)
C9_FramingOnNormalized ==
    last.op = "framing" /\ last.trusted = "validated" =>
        LET te == Named(last.input, b_transfer_encoding)
            cl == Named(last.input, b_content_length)
        IN  /\ last.err = "none"
            /\ Returned("chunked", FALSE, 0) <=> te /= {}
            /\ last.decision.has_content_length <=> te = {} /\ cl /= {}
            /\ last.decision.has_content_length =>
                   /\ last.decision.content_length >= 0
                   /\ \A i \in cl :
                          Returned("absent", TRUE, DecimalValue(last.input[i].value))
            /\ Returned("absent", FALSE, 0) <=> te = {} /\ cl = {}

\* a returned list that carries both headers, Transfer-Encoding in another case
C9_Witness ==
    /\ last.op = "framing"
    /\ last.trusted = "validated"
    /\ Named(last.input, b_content_length) /= {}
    /\ \E i \in Named(last.input, b_transfer_encoding) : last.input[i].value /= b_chunked
    /\ Returned("chunked", FALSE, 0)

(***************************************************************************)
(* C10 as stated: set_comma_header checks nothing, so a normalised list    *)
(* edited by it can violate the Normalizer invariants; framing_headers on  *)
(* such a list fails its assertion or the integer parse instead of         *)
(* returning a decision, and normalize_and_validate rejects it.            *)
(***************************************************************************)
Edited == last.trusted = "edited" /\ ~NormalizerInvariants(last.input)

C10_AsStated ==
    /\ last.op = "set" => last.err = "none"
    /\ last.op = "framing" /\ Edited => last.err \in {"AssertionError", "ValueError"}
    /\ last.op = "normalize" /\ Edited => last.err \in ProtocolErrors

(***************************************************************************)
(* C10 amended: set_comma_header checks nothing and raises nothing, so a   *)
(* normalised list edited by it can violate the Normalizer invariants.     *)
(* On such a list framing_headers fails its assertion exactly when the     *)
(* Transfer-Encoding tokens are non-empty and not [chunked], fails the     *)
(* integer parse exactly when there is no Transfer-Encoding token and the  *)
(* first Content-Length token is not an integer, and otherwise returns a   *)
(* decision although the invariants are violated (several Content-Length   *)
(* headers: the first one wins).  normalize_and_validate raises a          *)
(* ProtocolError on every such list.                                       *)
(***************************************************************************)
C10_SetBypassesValidation ==
    /\ last.op = "set" => last.err = "none" /\ headers = last.out
    /\ last.op = "framing" /\ Edited =>
           /\ last.err = "AssertionError" <=>
                  TETokens(last.input) /= <<>> /\ TETokens(last.input) /= <<b_chunked>>
           /\ last.err = "ValueError" <=>
                  /\ TETokens(last.input) = <<>>
                  /\ CLTokens(last.input) /= <<>>
                  /\ ~IsIntLiteral(CLTokens(last.input)[1])
           /\ last.err \in {"none", "AssertionError", "ValueError"}
    /\ last.op = "normalize" /\ last.trusted = "edited" =>
           (last.err \in ProtocolErrors <=> ~NormalizerInvariants(last.input))

\* an edited list with two Transfer-Encoding headers fails the assertion
C10_Witness ==
    /\ last.op = "framing"
    /\ Edited
    /\ Cardinality(Named(last.input, b_transfer_encoding)) = 2
    /\ last.err = "AssertionError"

====
